---- MODULE Spec2Model ----
(***************************************************************************)
(* A state-machine model of src/index.js: crawlMeetingUrls and the         *)
(* functions it calls (findFreePort, checkPort, startChrome, readUrlFile,  *)
(* waitForCookies, waitForDownload), together with the environment they    *)
(* act on (local ports, the browser process, the page's cookies, the       *)
(* download directory).                                                    *)
(*                                                                         *)
(* Time is counted in seconds.  The code only ever compares Date.now()     *)
(* with a reference it took earlier (startTime at line 105,                *)
(* downloadStartTime at line 370) or a file's modification time with that  *)
(* reference, so the clock `now` counts from the most recent reference,    *)
(* and a recorded time (a modification time, the stamp in a file name) is  *)
(* kept as far as the code can tell it apart: Stale (before the            *)
(* reference), 0 (the second of the reference) or Later.                   *)
(***************************************************************************)
EXTENDS Integers, Sequences, FiniteSets, TLC

\* ---- bounds of the model ------------------------------------------------
MaxItems == 2
\* largest size a downloaded file grows to
MaxSize == 2
\* the naming of line 386 on its own: dot-segments in a shortcut file's name
MaxNameLen == 3
\* findFreePort on its own: ports from basePort that are in use or refuse a bind
MaxBusy == 2
\* DOWNLOAD_TIMEOUT (line 37), configured in seconds
downloadTimeout == 22

\* ---- program constants (seconds where they are times) -------------------
PortMaxAttempts == 100
WarmUp == 10
HandshakeMaxAttempts == 10
HandshakeInterval == 3
CookieMaxAttempts == 5
CookieTimeout == 120
maxStableCount == 5
checkInterval == 3
SettleWait == 2
DiscoveryInterval == 1

\* line 30: LOGIN_WAIT_TIME, by default
loginWaitTime == 30
\* waitTime values waitForCookies is checked with on its own
LoginWaitTimes == {10, 20, 30, 60}
\* number of leading ports, from basePort, that are in use
PortConfigs == {0, PortMaxAttempts}
\* URL fields, as the characters that matter to line 87
Http == <<"h", "t", "t", "p", ":">>
Https == <<"h", "t", "t", "p", "s", ":">>
Httpx == <<"h", "t", "t", "p", "x", ":">>
Ftp == <<"f", "t", "p", ":">>
\* the URL fields readUrlFile is checked with on its own; <<>> is an absent or empty field
UrlForms == { <<>>, Http, Https, Httpx, Ftp }
\* a file of the shortcut folder is [name, url]: its name is its position in the
\* listing (which stands for a base name of its own) followed by the dot-segments
\* in `name`
\* the shortcut folder holds up to MaxItems files of these kinds
ItemKinds ==
    { [name |-> <<".url">>, url |-> Http],
      [name |-> <<".url">>, url |-> Ftp],
      [name |-> <<".txt">>, url |-> Http] }
\* the dot-segments the naming of line 386 is checked with on its own
Segments == {".url", ".URL", ".Url", ".txt"}
\* a recorded time older than the reference of the clock, and one after it
Stale == 0 - 1
Later == Stale + 2
\* the time t as it is recorded
Recorded(t) == IF t > 0 THEN Later ELSE t
\* the stamp of a name that carries none
NoStamp == 0 - 2

requiredCookies == {"session", "session_list"}
CookieNames == {"session", "session_list", "lang"}

VARIABLES
    pc,             \* position of crawlMeetingUrls (or of the function it awaits)
    now,            \* Date.now(), seconds since the clock's reference
    env,            \* the machine: chromeExists, portsInUse, denied (ports that refuse
                    \* a bind), bound (ports a browser listens on), peer (another run)
    desktop,        \* listing of desktopPath: sequence of shortcut files
    chromeProcess,  \* local variable of crawlMeetingUrls: "undefined" or "handle"
    proc,           \* the spawned process: "none", "running", "exited", "killed"
    isLoggedIn,     \* local variable of crawlMeetingUrls
    probe,          \* findFreePort: [i, port] (port as offset from basePort)
    attempts,       \* handshake attempts (line 234)
    idx,            \* index of the current item in urlFiles
    page,           \* page of the current item: "none", "open", "closed"
    err,            \* error in flight: [at, kind], NoErr when none
    completion,     \* how the item's try block was left: "next" or "return"
    wfc,            \* frame of waitForCookies
    wfd,            \* frame of waitForDownload
    dir,            \* download directory: the files, in the order of their creation
    downloads,      \* exports triggered in the browser whose file is not yet created
    obs             \* what the run did so far (observations, not program state);
                    \* clean: no item was skipped, failed or had its download returned
                    \* before it was complete;
                    \* gateFailed: 0, or the number of items read when the gate failed

vars == <<pc, now, env, desktop, chromeProcess, proc, isLoggedIn, probe, attempts,
          idx, page, err, completion, wfc, wfd, dir, downloads, obs>>

\* ---- helpers --------------------------------------------------------------

NoErr == [at |-> "", kind |-> ""]

\* sequences over S of length at most n
RECURSIVE SeqsUpTo(_, _)
SeqsUpTo(S, n) ==
    IF n = 0 THEN { <<>> }
    ELSE LET shorter == SeqsUpTo(S, n - 1)
         IN  shorter \cup { Append(q, x) : q \in { r \in shorter : Len(r) = n - 1 }, x \in S }

\* path.extname: the last dot-segment of the name
extname(name) == IF Len(name) = 0 THEN "" ELSE name[Len(name)]

\* String.prototype.toLowerCase, on a dot-segment
toLowerCase(t) == IF t \in {".url", ".URL", ".Url"} THEN ".url" ELSE t

\* line 259: extname(file).toLowerCase() === '.url'
IsUrlFile(f) == toLowerCase(extname(f.name)) = ".url"

\* line 259: files.filter(...), as positions of the listing
RECURSIVE FilterUrl(_, _)
FilterUrl(fs, i) ==
    IF i > Len(fs) THEN <<>>
    ELSE IF IsUrlFile(fs[i]) THEN <<i>> \o FilterUrl(fs, i + 1)
    ELSE FilterUrl(fs, i + 1)

\* positions in `desktop` of the shortcut files, in listing order
urlFiles == FilterUrl(desktop, 1)

\* the shortcut file the loop is at
CurFile == desktop[urlFiles[idx]]

\* lines 87: url && url.startsWith('http')
ValidUrl(u) == Len(u) >= 4 /\ SubSeq(u, 1, 4) = <<"h", "t", "t", "p">>

\* lines 67-80: what checkPort resolves with for a port in the given state
checkPort(status) == status # "inuse"

\* the state of the port basePort + off: "inuse" (bind fails with EADDRINUSE),
\* "denied" (bind fails with another error) or "free"
PortStatus(off) ==
    IF off \in env.bound THEN "inuse"
    ELSE IF off \in env.denied THEN "denied"
    ELSE IF off < env.portsInUse THEN "inuse"
    ELSE "free"

\* no other run of the program on the machine
NoPeer == [pc |-> "none", i |-> 0, port |-> 0]

\* line 142: the extension waitForDownload looks for
downloadType == "WORD"
targetExt == IF downloadType = "PDF" THEN ".pdf" ELSE ".docx"

\* a new reference is taken: every time recorded so far is older than it
Rebase(d) ==
    [k \in 1..Len(d) |->
        [d[k] EXCEPT !.mtime = Stale,
                     !.name = [@ EXCEPT !.stamp = IF @ = NoStamp THEN NoStamp ELSE Stale]]]

\* an error leaves the current step for the handler at `to`
Throw(at, kind, to) ==
    /\ err' = [at |-> at, kind |-> kind]
    /\ pc' = to

Obs(field, value) == obs' = [obs EXCEPT ![field] = value]

\* line 239: what fetch(wsUrl) can end with: no response (fetch rejects), or a
\* response that is ok or not, with a body that parses as JSON or not
NoResponse == [received |-> FALSE, ok |-> FALSE, json |-> FALSE]
Responses ==
    { NoResponse,
      [received |-> TRUE, ok |-> FALSE, json |-> FALSE],
      [received |-> TRUE, ok |-> TRUE, json |-> FALSE],
      [received |-> TRUE, ok |-> TRUE, json |-> TRUE] }

\* ---- initial state ------------------------------------------------------

\* the download directory before the run: the output of an earlier run and a file
\* of the other export type
InitDir ==
    << [name |-> [hidden |-> FALSE, stem |-> <<"old">>, stamp |-> NoStamp, ext |-> ".pdf",
                  partial |-> FALSE],
        mtime |-> Stale, size |-> 1, open |-> FALSE, by |-> 0],
       [name |-> [hidden |-> FALSE, stem |-> <<"old">>, stamp |-> NoStamp, ext |-> ".docx",
                  partial |-> FALSE],
        mtime |-> Stale, size |-> 1, open |-> FALSE, by |-> 0] >>

\* what the current iteration did so far
\* (shot: the UI step a diagnostic screenshot was taken for, "none" when none was)
NoItem == [nav |-> 0, exported |-> 0, renamed |-> 0, timedOut |-> FALSE, failed |-> FALSE,
           shot |-> "none"]

NoWfc == [startTime |-> 0, attempts |-> 0, waitTime |-> 0, result |-> "none", sawAll |-> FALSE,
          last |-> {}, polls |-> 0, lastPollAt |-> 0]
NoWfd == [startTime |-> 0, endTime |-> 0, downloadedFile |-> <<>>, previousSize |-> 0 - 1,
          stableCount |-> 0, run |-> 0, lastSample |-> 0 - 1, wasReset |-> FALSE, listedAt |-> 0 - 1, sampledAt |-> 0 - 1,
          complete |-> FALSE, result |-> "none"]

Init ==
    /\ pc = "mkdir"
    /\ now = 0
    /\ env \in [chromeExists : BOOLEAN, portsInUse : PortConfigs, denied : {{}},
                bound : {{}}, peer : {NoPeer}]
    /\ desktop \in SeqsUpTo(ItemKinds, MaxItems)
    /\ chromeProcess = "undefined"
    /\ proc = "none"
    /\ isLoggedIn = FALSE
    /\ probe = [i |-> 0, port |-> 0]
    /\ attempts = 0
    /\ idx = 0
    /\ page = "none"
    /\ err = NoErr
    /\ completion = "next"
    /\ wfc = NoWfc
    /\ wfd = NoWfd
    /\ dir = InitDir
    /\ downloads = {}
    /\ obs = [kills |-> 0, spawned |-> 0, handshake |-> "none", response |-> NoResponse,
              itemsRead |-> 0,
              anyPage |-> FALSE, gateCalls |-> 0, gateFailed |-> 0, fatal |-> FALSE, clean |-> TRUE,
              exitCode |-> 0 - 1, item |-> NoItem]

\* ---- crawlMeetingUrls: start-up -----------------------------------------

\* lines 223-225: mkdir and access of downloadPath
EnsureDownloadDir ==
    /\ pc = "mkdir"
    /\ \/ pc' = "findFreePort" /\ UNCHANGED err
       \/ Throw("mkdir", "Error", "catch")
    /\ UNCHANGED <<now, env, desktop, chromeProcess, proc, isLoggedIn, probe, attempts,
                   idx, page, completion, wfc, wfd, dir, downloads, obs>>

\* lines 55-63: one iteration of findFreePort's loop
ProbePort ==
    /\ pc = "findFreePort"
    /\ probe.i < PortMaxAttempts
    /\ IF checkPort(PortStatus(probe.port))
       THEN pc' = "startChrome" /\ UNCHANGED probe
       ELSE pc' = pc /\ probe' = [i |-> probe.i + 1, port |-> probe.port + 1]
    /\ UNCHANGED <<now, env, desktop, chromeProcess, proc, isLoggedIn, attempts,
                   idx, page, err, completion, wfc, wfd, dir, downloads, obs>>

\* variant: after the last probe the browser is launched on the next port
NoFreePortLaunch ==
    /\ pc = "findFreePort"
    /\ probe.i >= PortMaxAttempts
    /\ pc' = "startChrome"
    /\ UNCHANGED <<now, env, desktop, chromeProcess, proc, isLoggedIn, probe, attempts,
                   idx, page, err, completion, wfc, wfd, dir, downloads, obs>>

\* line 64: the loop ended without a free port
NoFreePort ==
    /\ pc = "findFreePort"
    /\ probe.i >= PortMaxAttempts
    /\ Throw("findFreePort", "Error", "catch")
    /\ UNCHANGED <<now, env, desktop, chromeProcess, proc, isLoggedIn, probe, attempts,
                   idx, page, completion, wfc, wfd, dir, downloads, obs>>

\* variant: the executable is looked for only after exec
StartChromeMissingAfterExec ==
    /\ pc = "startChrome"
    /\ ~env.chromeExists
    /\ proc' = "exited"
    /\ Obs("spawned", obs.spawned + 1)
    /\ Throw("startChrome", "Error", "catch")
    /\ UNCHANGED <<now, env, desktop, chromeProcess, isLoggedIn, probe, attempts,
                   idx, page, completion, wfc, wfd, dir, downloads>>

\* lines 197-201: the executable is missing, startChrome rejects before exec
StartChromeMissing ==
    /\ pc = "startChrome"
    /\ ~env.chromeExists
    /\ Throw("startChrome", "Error", "catch")
    /\ UNCHANGED <<now, env, desktop, chromeProcess, proc, isLoggedIn, probe, attempts,
                   idx, page, completion, wfc, wfd, dir, downloads, obs>>

\* lines 203-213: exec spawns the browser
StartChromeExec ==
    /\ pc = "startChrome"
    /\ env.chromeExists
    /\ proc' = "running"
    /\ pc' = "warmup"
    /\ Obs("spawned", obs.spawned + 1)
    /\ UNCHANGED <<now, env, desktop, chromeProcess, isLoggedIn, probe, attempts,
                   idx, page, err, completion, wfc, wfd, dir, downloads>>

\* lines 204-207, 212: the process fails within the warm-up, startChrome rejects
LaunchFails ==
    /\ pc = "warmup"
    /\ proc' = "exited"
    /\ Throw("startChrome", "Error", "catch")
    /\ UNCHANGED <<now, env, desktop, chromeProcess, isLoggedIn, probe, attempts,
                   idx, page, completion, wfc, wfd, dir, downloads, obs>>

\* lines 214, 229: after 10 s startChrome resolves with the process handle
WarmUpDone ==
    /\ pc = "warmup"
    /\ now' = now + WarmUp
    /\ chromeProcess' = "handle"
    /\ pc' = "handshake"
    /\ UNCHANGED <<env, desktop, proc, isLoggedIn, probe, attempts,
                   idx, page, err, completion, wfc, wfd, dir, downloads, obs>>

\* variant: the body of an ok response is not parsed
GotOkResponse(response) == response.received /\ response.ok

\* lines 239-242: fetch resolved, response.ok, and response.json() resolved
GotDescriptor(response) == response.received /\ response.ok /\ response.json

\* lines 237-249: one metadata request of the handshake (attempts is local to the
\* handshake and not read after it: the model clears it when the loop is left)
HandshakeAttempt ==
    /\ pc = "handshake"
    /\ attempts < HandshakeMaxAttempts
    /\ \E response \in Responses :
          IF GotDescriptor(response)
          THEN \* break
               /\ pc' = "connect"
               /\ attempts' = 0
               /\ obs' = [obs EXCEPT !.handshake = "ok", !.response = response]
               /\ UNCHANGED <<now, err>>
          ELSE IF attempts + 1 = HandshakeMaxAttempts
          THEN /\ Throw("handshake", "Error", "catch")
               /\ attempts' = 0
               /\ obs' = [obs EXCEPT !.handshake = "failed", !.response = response]
               /\ UNCHANGED now
          ELSE /\ pc' = pc
               /\ attempts' = attempts + 1
               /\ now' = now + HandshakeInterval
               /\ obs' = [obs EXCEPT !.handshake = "trying", !.response = response]
               /\ UNCHANGED err
    /\ UNCHANGED <<env, desktop, chromeProcess, proc, isLoggedIn, probe,
                   idx, page, completion, wfc, wfd, dir, downloads>>

\* lines 252-256: puppeteer.connect
Connect ==
    /\ pc = "connect"
    /\ \/ pc' = "readdir" /\ UNCHANGED err
       \/ Throw("connect", "Error", "catch")
    /\ UNCHANGED <<now, env, desktop, chromeProcess, proc, isLoggedIn, probe, attempts,
                   idx, page, completion, wfc, wfd, dir, downloads, obs>>

\* lines 258-263: list the shortcut folder; return when it holds no .url file.
\* No time taken before the loop is compared with a later one: the clock restarts.
ReadDesktop ==
    /\ pc = "readdir"
    /\ \/ /\ Len(urlFiles) = 0
          /\ pc' = "finally"
          /\ UNCHANGED <<idx, err>>
       \/ /\ Len(urlFiles) > 0
          /\ pc' = "item"
          /\ idx' = 1
          /\ UNCHANGED err
       \/ Throw("readdir", "Error", "catch") /\ UNCHANGED idx
    /\ now' = 0
    /\ UNCHANGED <<env, desktop, chromeProcess, proc, isLoggedIn, probe, attempts,
                   page, completion, wfc, wfd, dir, downloads, obs>>

\* ---- crawlMeetingUrls: the item loop ------------------------------------

\* lines 267-272 with readUrlFile (lines 82-96), which returns null instead of throwing
ReadUrlFile ==
    /\ pc = "item"
    /\ idx <= Len(urlFiles)
    /\ \/ \* the file reads and holds an http URL
          /\ ValidUrl(CurFile.url)
          /\ pc' = "newPage"
          /\ obs' = [obs EXCEPT !.itemsRead = @ + 1, !.item = NoItem]
          /\ UNCHANGED idx
       \/ \* invalid URL (lines 87-90): logged, null
          /\ ~ValidUrl(CurFile.url)
          /\ pc' = pc
          /\ idx' = idx + 1
          /\ obs' = [obs EXCEPT !.itemsRead = @ + 1, !.item = NoItem, !.clean = FALSE]
       \/ \* readFile or the parse throws (lines 92-95): logged, null
          /\ pc' = pc
          /\ idx' = idx + 1
          /\ obs' = [obs EXCEPT !.itemsRead = @ + 1, !.item = NoItem, !.clean = FALSE]
    /\ UNCHANGED <<now, env, desktop, chromeProcess, proc, isLoggedIn, probe, attempts,
                   page, err, completion, wfc, wfd, dir, downloads>>

\* line 273: browser.newPage(), outside the item's try block
NewPage ==
    /\ pc = "newPage"
    /\ \/ /\ page' = "open"
          /\ pc' = "cdp"
          /\ Obs("anyPage", TRUE)
          /\ UNCHANGED err
       \/ Throw("newPage", "Error", "catch") /\ UNCHANGED <<page, obs>>
    /\ UNCHANGED <<now, env, desktop, chromeProcess, proc, isLoggedIn, probe, attempts,
                   idx, completion, wfc, wfd, dir, downloads>>

\* line 274: createCDPSession, outside the item's try block
CreateCDPSession ==
    /\ pc = "cdp"
    /\ \/ pc' = "setDownloadBehavior" /\ UNCHANGED err
       \/ Throw("createCDPSession", "Error", "catch")
    /\ UNCHANGED <<now, env, desktop, chromeProcess, proc, isLoggedIn, probe, attempts,
                   idx, page, completion, wfc, wfd, dir, downloads, obs>>

\* lines 276-280: Page.setDownloadBehavior, outside the item's try block
SetDownloadBehavior ==
    /\ pc = "setDownloadBehavior"
    /\ \/ pc' = "setViewport" /\ UNCHANGED err
       \/ Throw("setDownloadBehavior", "Error", "catch")
    /\ UNCHANGED <<now, env, desktop, chromeProcess, proc, isLoggedIn, probe, attempts,
                   idx, page, completion, wfc, wfd, dir, downloads, obs>>

\* line 283: first statement of the item's try block
SetViewport ==
    /\ pc = "setViewport"
    /\ \/ pc' = "goto" /\ UNCHANGED err
       \/ Throw("setViewport", "Error", "item_catch")
    /\ UNCHANGED <<now, env, desktop, chromeProcess, proc, isLoggedIn, probe, attempts,
                   idx, page, completion, wfc, wfd, dir, downloads, obs>>

\* lines 285-303: page.goto, then the session gate unless already logged in
Goto ==
    /\ pc = "goto"
    /\ \/ \* line 105: startTime = Date.now(), the clock's reference from here on
          /\ ~isLoggedIn
          /\ pc' = "wfc"
          /\ now' = 0
          /\ dir' = Rebase(dir)
          /\ wfc' = [NoWfc EXCEPT !.startTime = 0, !.waitTime = loginWaitTime,
                                  !.result = "running"]
          /\ obs' = [obs EXCEPT !.item.nav = @ + 1, !.gateCalls = @ + 1]
          /\ UNCHANGED err
       \/ /\ isLoggedIn
          /\ pc' = "menu"
          /\ obs' = [obs EXCEPT !.item.nav = @ + 1]
          /\ UNCHANGED <<wfc, err, now, dir>>
       \/ \E k \in {"TimeoutError", "net::ERR"} :
            /\ Throw("goto", k, "item_catch")
            /\ obs' = [obs EXCEPT !.item.nav = @ + 1]
            /\ UNCHANGED <<wfc, now, dir>>
    /\ UNCHANGED <<env, desktop, chromeProcess, proc, isLoggedIn, probe, attempts,
                   idx, page, completion, wfd, downloads>>

\* ---- waitForCookies (lines 98-133) ---------------------------------------

\* variant: one required cookie is enough
HasSomeCookie(cookies, cookieNames) ==
    \E name \in cookieNames : \E cookie \in cookies : cookie = name

\* lines 111-113: cookieNames.every(name => cookies.some(cookie => cookie.name === name))
HasAllCookies(cookies, cookieNames) ==
    \A name \in cookieNames : \E cookie \in cookies : cookie = name

\* variant: a poll is still started at the moment the timeout has elapsed
CookieLoopOpenInclusive ==
    /\ wfc.attempts < CookieMaxAttempts
    /\ now - wfc.startTime <= CookieTimeout

\* line 108: the loop condition
CookieLoopOpen ==
    /\ wfc.attempts < CookieMaxAttempts
    /\ now - wfc.startTime < CookieTimeout

\* lines 108-128: one poll; page.cookies() returns the cookies of that moment or throws
CookiePoll ==
    /\ pc = "wfc"
    /\ CookieLoopOpen
    /\ \/ \E cookies \in SUBSET CookieNames :
            IF HasAllCookies(cookies, requiredCookies)
            THEN /\ wfc' = [wfc EXCEPT !.result = "true", !.last = cookies, !.polls = @ + 1,
                                       !.lastPollAt = now,
                                       !.sawAll = @ \/ requiredCookies \subseteq cookies]
                 /\ pc' = "gate"
                 /\ UNCHANGED now
            ELSE /\ wfc' = [wfc EXCEPT !.attempts = @ + 1, !.last = cookies, !.polls = @ + 1,
                                       !.lastPollAt = now,
                                       !.sawAll = @ \/ requiredCookies \subseteq cookies]
                 /\ now' = now + wfc.waitTime
                 /\ pc' = pc
       \/ \* page.cookies() throws (lines 124-128)
          /\ wfc' = [wfc EXCEPT !.attempts = @ + 1, !.last = {}, !.polls = @ + 1,
                                !.lastPollAt = now]
          /\ now' = now + wfc.waitTime
          /\ pc' = pc
    /\ UNCHANGED <<env, desktop, chromeProcess, proc, isLoggedIn, probe, attempts,
                   idx, page, err, completion, wfd, dir, downloads, obs>>

\* lines 131-132: a bound is reached, return false
CookieGiveUp ==
    /\ pc = "wfc"
    /\ ~CookieLoopOpen
    /\ wfc' = [wfc EXCEPT !.result = "false"]
    /\ pc' = "gate"
    /\ UNCHANGED <<now, env, desktop, chromeProcess, proc, isLoggedIn, probe, attempts,
                   idx, page, err, completion, wfd, dir, downloads, obs>>

\* lines 299-305: the gate passed
GatePassed ==
    /\ pc = "gate"
    /\ wfc.result = "true"
    /\ isLoggedIn' = TRUE
    /\ wfc' = NoWfc
    /\ pc' = "menu"
    /\ UNCHANGED <<now, env, desktop, chromeProcess, proc, probe, attempts,
                   idx, page, err, completion, wfd, dir, downloads, obs>>

\* lines 294-298: the gate failed; close the page and return
GateFailed ==
    /\ pc = "gate"
    /\ wfc.result = "false"
    /\ wfc' = NoWfc
    /\ \/ \* page.close() resolves, return (through the finally blocks)
          /\ page' = "closed"
          /\ completion' = "return"
          /\ pc' = "item_finally"
          /\ Obs("gateFailed", obs.itemsRead)
          /\ UNCHANGED err
       \/ \* page.close() throws inside the item's try block
          /\ Throw("gateClose", "Error", "item_catch")
          /\ Obs("gateFailed", obs.itemsRead)
          /\ UNCHANGED <<page, completion>>
    /\ UNCHANGED <<now, env, desktop, chromeProcess, proc, isLoggedIn, probe, attempts,
                   idx, dir, downloads, wfd>>

\* ---- crawlMeetingUrls: the export flow of one item -----------------------

\* lines 308-312: waitForSelector with visible: true resolves with the element or
\* throws a TimeoutError (it never resolves with null), then the click and wait(1000)
ClickMenu ==
    /\ pc = "menu"
    /\ \/ /\ pc' = "downloadAs"
          /\ now' = now + 1
          /\ UNCHANGED err
       \/ Throw("waitForSelector", "TimeoutError", "item_catch") /\ UNCHANGED now
       \/ Throw("menuClick", "Error", "item_catch") /\ UNCHANGED now
    /\ UNCHANGED <<env, desktop, chromeProcess, proc, isLoggedIn, probe, attempts,
                   idx, page, completion, wfc, wfd, dir, downloads, obs>>

\* lines 320-339 (what = "downloadAs") and 343-362 (what = "format"): evaluateHandle
\* resolves with a handle even when find() returned undefined, and that handle has no
\* boundingBox method, so a missing element is a TypeError; an element with no box
\* is logged, a screenshot is taken and the loop continues
LocateAndPoint(what, next) ==
    /\ pc = what
    /\ \/ \* element found, with a box: move or click, wait(2000)
          /\ pc' = next
          /\ now' = now + 2
          /\ UNCHANGED <<err, completion, obs>>
       \/ \* element found, boundingBox() is null: screenshot, continue
          /\ pc' = "item_finally"
          /\ completion' = "next"
          /\ obs' = [obs EXCEPT !.item.shot = what]
          /\ UNCHANGED <<now, err>>
       \/ \* no such element: handle.boundingBox is not a function
          /\ Throw(what, "TypeError", "item_catch")
          /\ UNCHANGED <<now, completion, obs>>
       \/ \* evaluateHandle, boundingBox, the mouse or the screenshot throws
          /\ Throw(what, "Error", "item_catch")
          /\ UNCHANGED <<now, completion, obs>>
    /\ UNCHANGED <<env, desktop, chromeProcess, proc, isLoggedIn, probe, attempts,
                   idx, page, wfc, wfd, dir, downloads>>

HoverDownloadAs == LocateAndPoint("downloadAs", "format")

ClickFormat == LocateAndPoint("format", "findExport")

\* line 370: downloadStartTime = Date.now(); the clock's reference from here on
downloadStartTime == 0

\* variant: the download is waited for whether or not the export button was found
FindExportUnchecked ==
    /\ pc = "findExport"
    /\ \/ /\ pc' = "export"
          /\ now' = downloadStartTime
          /\ dir' = Rebase(dir)
          /\ UNCHANGED <<err, obs>>
       \/ /\ pc' = "afterExport"
          /\ now' = downloadStartTime
          /\ dir' = Rebase(dir)
          /\ obs' = [obs EXCEPT !.item.shot = "export"]
          /\ UNCHANGED err
       \/ /\ Throw("findExport", "Error", "item_catch")
          /\ UNCHANGED <<now, dir, obs>>
    /\ completion' = "next"
    /\ UNCHANGED <<env, desktop, chromeProcess, proc, isLoggedIn, probe, attempts,
                   idx, page, wfc, wfd, downloads>>

\* lines 365-371, 390-393: look for the export button, take downloadStartTime
FindExport ==
    /\ pc = "findExport"
    /\ \/ \* the button is there
          /\ pc' = "export"
          /\ now' = downloadStartTime
          /\ dir' = Rebase(dir)
          /\ UNCHANGED <<err, obs>>
       \/ \* asElement() is null: logged, screenshot, end of the try block
          /\ pc' = "item_finally"
          /\ now' = downloadStartTime
          /\ dir' = Rebase(dir)
          /\ obs' = [obs EXCEPT !.item.shot = "export"]
          /\ UNCHANGED err
       \/ \* evaluateHandle throws
          /\ Throw("findExport", "Error", "item_catch")
          /\ UNCHANGED <<now, dir, obs>>
    /\ completion' = "next"
    /\ UNCHANGED <<env, desktop, chromeProcess, proc, isLoggedIn, probe, attempts,
                   idx, page, wfc, wfd, downloads>>

\* lines 372-373: click the export button; the browser starts a download
ClickExport ==
    /\ pc = "export"
    /\ \/ /\ pc' = "afterExport"
          /\ downloads' = downloads \cup {idx}
          /\ obs' = [obs EXCEPT !.item.exported = @ + 1]
          /\ UNCHANGED err
       \/ Throw("exportClick", "Error", "item_catch") /\ UNCHANGED <<downloads, obs>>
    /\ UNCHANGED <<now, env, desktop, chromeProcess, proc, isLoggedIn, probe, attempts,
                   idx, page, completion, wfc, wfd, dir>>

\* lines 374-383: screenshot, confirmation dialog, then the call of waitForDownload
\* (line 136: endTime = startTime + timeout)
AfterExport ==
    /\ pc = "afterExport"
    /\ \/ /\ pc' = "wfd_discover"
          /\ wfd' = [NoWfd EXCEPT !.startTime = downloadStartTime,
                                  !.endTime = downloadStartTime + downloadTimeout,
                                  !.result = "running"]
          /\ UNCHANGED err
       \/ Throw("afterExport", "Error", "item_catch") /\ UNCHANGED wfd
    /\ UNCHANGED <<now, env, desktop, chromeProcess, proc, isLoggedIn, probe, attempts,
                   idx, page, completion, wfc, dir, downloads, obs>>

\* ---- waitForDownload (lines 135-188) --------------------------------------

\* lines 146-150: not a partial download, not hidden, of the expected extension
\* (a partial download's name ends with .crdownload, not with the extension)
Qualifies(f) ==
    /\ ~f.name.partial
    /\ ~f.name.hidden
    /\ f.name.ext = targetExt

\* variant: the modification time is not looked at
IsNewAlways(f, startTime) == TRUE

\* line 158: only files modified since the download started
IsNew(f, startTime) == f.mtime >= startTime

\* lines 144-158: the qualifying new files, in listing order
NewFiles(listing, startTime) ==
    SelectSeq(listing, LAMBDA f : Qualifies(f) /\ IsNew(f, startTime))

\* line 141: readdir lists the directory in an order of its own
Listings(d) ==
    { [k \in 1..Len(d) |-> d[order[k]]] : order \in Permutations(1..Len(d)) }

\* position in the directory of the file of that name, 0 when there is none
Lookup(d, name) ==
    IF \E k \in 1..Len(d) : d[k].name = name
    THEN CHOOSE k \in 1..Len(d) : d[k].name = name
    ELSE 0

\* variant: a changed size does not reset the counter
NextStableCountNoReset(currentSize, previousSize, stableCount) ==
    IF currentSize = previousSize /\ currentSize > 0 THEN stableCount + 1 ELSE stableCount

\* lines 172-180: the stability counter after a sample
NextStableCount(currentSize, previousSize, stableCount) ==
    IF currentSize = previousSize /\ currentSize > 0 THEN stableCount + 1 ELSE 0

\* line 174: completion is declared
IsStable(stableCount) == stableCount >= maxStableCount

\* variant: the deadline itself is still inside the window
UpToDeadline == now <= wfd.endTime

\* lines 140, 169: the loop condition shared by both phases
BeforeDeadline == now < wfd.endTime

\* observation: how many samples in a row, the given one last, had this nonzero size
RunLength(currentSize) ==
    IF currentSize = 0 THEN 0
    ELSE IF currentSize = wfd.lastSample THEN wfd.run + 1 ELSE 1

\* lines 140-162, 185: one pass of the discovery loop
Discover ==
    /\ pc = "wfd_discover"
    /\ BeforeDeadline
    /\ \/ /\ \E listing \in Listings(dir) :
             LET newFiles == NewFiles(listing, wfd.startTime)
             IN  IF Len(newFiles) > 0
                 THEN /\ wfd' = [wfd EXCEPT !.downloadedFile = <<newFiles[1].name>>,
                                            !.previousSize = 0 - 1,
                                            !.stableCount = 0,
                                            !.listedAt = now]
                      /\ pc' = "wfd_sample"
                      /\ UNCHANGED now
                 ELSE /\ wfd' = [wfd EXCEPT !.listedAt = now]
                      /\ now' = now + DiscoveryInterval
                      /\ pc' = pc
          /\ UNCHANGED err
       \/ \* readdir or stat throws
          /\ Throw("waitForDownload", "Error", "item_catch")
          /\ wfd' = [NoWfd EXCEPT !.result = "error"]
          /\ UNCHANGED now
    /\ UNCHANGED <<env, desktop, chromeProcess, proc, isLoggedIn, probe, attempts,
                   idx, page, completion, wfc, dir, downloads, obs>>

\* variant: a candidate found empty is dropped and the directory is listed again
SampleRediscover ==
    /\ pc = "wfd_sample"
    /\ BeforeDeadline
    /\ LET k == Lookup(dir, wfd.downloadedFile[1])
       IN  \/ /\ k > 0
              /\ LET currentSize == dir[k].size
                     count == NextStableCount(currentSize, wfd.previousSize, wfd.stableCount)
                 IN  IF currentSize = wfd.previousSize /\ currentSize > 0 /\ IsStable(count)
                     THEN /\ wfd' = [wfd EXCEPT !.stableCount = count,
                                                !.run = RunLength(currentSize),
                                                !.lastSample = currentSize,
                                                !.sampledAt = now,
                                                !.complete = ~dir[k].open,
                                                !.result = "returned"]
                          /\ now' = now + SettleWait
                          /\ pc' = "rename"
                     ELSE /\ wfd' = [wfd EXCEPT !.stableCount = count,
                                                !.wasReset = @ \/ (wfd.stableCount > 0 /\ count = 0),
                                                !.previousSize = currentSize,
                                                !.run = RunLength(currentSize),
                                                !.lastSample = currentSize,
                                                !.sampledAt = now]
                          /\ now' = now + checkInterval
                          /\ pc' = IF currentSize = 0 THEN "wfd_discover" ELSE pc
              /\ UNCHANGED err
           \/ /\ Throw("waitForDownload", "Error", "item_catch")
              /\ wfd' = [NoWfd EXCEPT !.result = "error"]
              /\ UNCHANGED now
    /\ UNCHANGED <<env, desktop, chromeProcess, proc, isLoggedIn, probe, attempts,
                   idx, page, completion, wfc, dir, downloads, obs>>

\* lines 169-183: one size sample of the stability loop
Sample ==
    /\ pc = "wfd_sample"
    /\ BeforeDeadline
    /\ LET k == Lookup(dir, wfd.downloadedFile[1])
       IN  \/ /\ k > 0
              /\ LET currentSize == dir[k].size
                     count == NextStableCount(currentSize, wfd.previousSize, wfd.stableCount)
                 IN  IF currentSize = wfd.previousSize /\ currentSize > 0 /\ IsStable(count)
                     THEN \* wait(2000), return filePath
                          /\ wfd' = [wfd EXCEPT !.stableCount = count,
                                                !.run = RunLength(currentSize),
                                                !.lastSample = currentSize,
                                                !.sampledAt = now,
                                                !.complete = ~dir[k].open,
                                                !.result = "returned"]
                          /\ now' = now + SettleWait
                          /\ pc' = "rename"
                     ELSE /\ wfd' = [wfd EXCEPT !.stableCount = count,
                                                !.wasReset = @ \/ (wfd.stableCount > 0 /\ count = 0),
                                                !.previousSize = currentSize,
                                                !.run = RunLength(currentSize),
                                                !.lastSample = currentSize,
                                                !.sampledAt = now]
                          /\ now' = now + checkInterval
                          /\ pc' = pc
              /\ UNCHANGED err
           \/ \* fs.stat throws
              /\ Throw("waitForDownload", "Error", "item_catch")
              /\ wfd' = [NoWfd EXCEPT !.result = "error"]
              /\ UNCHANGED now
    /\ UNCHANGED <<env, desktop, chromeProcess, proc, isLoggedIn, probe, attempts,
                   idx, page, completion, wfc, dir, downloads, obs>>

\* variant: when the deadline passes with no file found the watcher starts over
DiscoverExpiredRestart ==
    /\ pc = "wfd_discover"
    /\ ~BeforeDeadline
    /\ now' = wfd.startTime
    /\ wfd' = [wfd EXCEPT !.listedAt = 0 - 1]
    /\ UNCHANGED <<pc, env, desktop, chromeProcess, proc, isLoggedIn, probe, attempts,
                   idx, page, err, completion, wfc, dir, downloads, obs>>

\* lines 140, 187: the deadline passed in the discovery loop
DiscoverExpired ==
    /\ pc = "wfd_discover"
    /\ ~BeforeDeadline
    /\ Throw("waitForDownload", "DownloadTimeout", "item_catch")
    /\ wfd' = [NoWfd EXCEPT !.result = "timeout"]
    /\ obs' = [obs EXCEPT !.item.timedOut = TRUE]
    /\ UNCHANGED <<now, env, desktop, chromeProcess, proc, isLoggedIn, probe, attempts,
                   idx, page, completion, wfc, dir, downloads>>

\* lines 169, 185, 140, 187: the deadline passed in the stability loop; wait(1000),
\* the outer condition fails too
SampleExpired ==
    /\ pc = "wfd_sample"
    /\ ~BeforeDeadline
    /\ now' = now + DiscoveryInterval
    /\ Throw("waitForDownload", "DownloadTimeout", "item_catch")
    /\ wfd' = [NoWfd EXCEPT !.result = "timeout"]
    /\ obs' = [obs EXCEPT !.item.timedOut = TRUE]
    /\ UNCHANGED <<env, desktop, chromeProcess, proc, isLoggedIn, probe, attempts,
                   idx, page, completion, wfc, dir, downloads>>

\* ---- crawlMeetingUrls: rename, the item's catch and finally ---------------

\* String.prototype.replace(t, ''): the name without the first occurrence of t
RECURSIVE RemoveFirst(_, _)
RemoveFirst(name, t) ==
    IF Len(name) = 0 THEN <<>>
    ELSE IF Head(name) = t THEN Tail(name)
    ELSE <<Head(name)>> \o RemoveFirst(Tail(name), t)

\* line 386: file.replace('.url', '')
StripUrl(f, i) == <<i>> \o RemoveFirst(f.name, ".url")

\* line 386: the new name, <shortcut name without .url>_<Date.now()><extname>
NewFileName(f, i, downloaded) ==
    [hidden |-> FALSE, stem |-> StripUrl(f, i), stamp |-> Recorded(now), ext |-> downloaded.ext,
     partial |-> FALSE]

\* lines 384-389: rename the downloaded file
Rename ==
    /\ pc = "rename"
    /\ LET k == Lookup(dir, wfd.downloadedFile[1])
       IN  \/ /\ k > 0
              /\ dir' = [dir EXCEPT ![k].name =
                            NewFileName(CurFile, urlFiles[idx], wfd.downloadedFile[1])]
              /\ pc' = "item_finally"
              /\ obs' = [obs EXCEPT !.item.renamed = @ + 1]
              /\ UNCHANGED err
           \/ \* fs.rename throws
              /\ Throw("rename", "Error", "item_catch")
              /\ UNCHANGED <<dir, obs>>
    /\ UNCHANGED <<now, env, desktop, chromeProcess, proc, isLoggedIn, probe, attempts,
                   idx, page, completion, wfc, wfd, downloads>>

\* lines 394-402: the item's catch block logs the error
ItemCatch ==
    /\ pc = "item_catch"
    /\ pc' = "item_finally"
    /\ completion' = "next"
    /\ obs' = [obs EXCEPT !.item.failed = TRUE]
    /\ UNCHANGED <<now, env, desktop, chromeProcess, proc, isLoggedIn, probe, attempts,
                   idx, page, err, wfc, wfd, dir, downloads>>

\* observation: the iteration went through without a failure and its download was
\* complete when waitForDownload returned it
ItemDone ==
    /\ ~obs.item.failed
    /\ wfd.result = "returned"
    /\ wfd.complete

\* variant: an item that failed is taken again
ItemFinallyRetry ==
    /\ pc = "item_finally"
    /\ \/ page' = "closed"
       \/ UNCHANGED page
    /\ IF completion = "return"
       THEN pc' = "finally" /\ UNCHANGED idx
       ELSE pc' = "item" /\ idx' = (IF obs.item.failed THEN idx ELSE idx + 1)
    /\ err' = NoErr
    /\ wfd' = NoWfd
    /\ now' = 0
    /\ dir' = Rebase(dir)
    /\ obs' = [obs EXCEPT !.clean = @ /\ ItemDone]
    /\ UNCHANGED <<env, desktop, chromeProcess, proc, isLoggedIn, probe, attempts,
                   completion, wfc, downloads>>

\* lines 403-410, then the return of line 297 or the next iteration of line 267;
\* the iteration's time references end with it
ItemFinally ==
    /\ pc = "item_finally"
    /\ \/ \* page.close() resolves
          page' = "closed"
       \/ \* page.close() throws, caught at line 407
          UNCHANGED page
    /\ IF completion = "return"
       THEN pc' = "finally" /\ UNCHANGED idx
       ELSE pc' = "item" /\ idx' = idx + 1
    /\ err' = NoErr
    /\ wfd' = NoWfd
    /\ now' = 0
    /\ dir' = Rebase(dir)
    /\ obs' = [obs EXCEPT !.clean = @ /\ ItemDone]
    /\ UNCHANGED <<env, desktop, chromeProcess, proc, isLoggedIn, probe, attempts,
                   completion, wfc, downloads>>

\* ---- crawlMeetingUrls: the end of the run ---------------------------------

\* lines 414-415: the loop is over
Disconnect ==
    /\ pc = "item"
    /\ idx > Len(urlFiles)
    /\ \/ pc' = "finally" /\ UNCHANGED err
       \/ Throw("disconnect", "Error", "catch")
    /\ UNCHANGED <<now, env, desktop, chromeProcess, proc, isLoggedIn, probe, attempts,
                   idx, page, completion, wfc, wfd, dir, downloads, obs>>

\* lines 416-418: the outer catch logs the error and swallows it
Catch ==
    /\ pc = "catch"
    /\ pc' = "finally"
    /\ Obs("fatal", TRUE)
    /\ UNCHANGED <<now, env, desktop, chromeProcess, proc, isLoggedIn, probe, attempts,
                   idx, page, err, completion, wfc, wfd, dir, downloads>>

\* line 421: chromeProcess.kill()
Kill(p) == IF p = "running" THEN "killed" ELSE p

\* variant: the browser is killed at the end of the try block, not in the finally
FinallyAfterSuccess ==
    /\ pc = "finally"
    /\ IF chromeProcess = "handle" /\ ~obs.fatal
       THEN /\ proc' = Kill(proc)
            /\ Obs("kills", obs.kills + 1)
       ELSE UNCHANGED <<proc, obs>>
    /\ pc' = "settled"
    /\ UNCHANGED <<now, env, desktop, chromeProcess, isLoggedIn, probe, attempts,
                   idx, page, err, completion, wfc, wfd, dir, downloads>>

\* variant: the finally kills without looking at chromeProcess
FinallyUnguarded ==
    /\ pc = "finally"
    /\ proc' = Kill(proc)
    /\ Obs("kills", obs.kills + 1)
    /\ pc' = "settled"
    /\ UNCHANGED <<now, env, desktop, chromeProcess, isLoggedIn, probe, attempts,
                   idx, page, err, completion, wfc, wfd, dir, downloads>>

\* lines 419-424: the outer finally
Finally ==
    /\ pc = "finally"
    /\ IF chromeProcess = "handle"
       THEN /\ proc' = Kill(proc)
            /\ Obs("kills", obs.kills + 1)
       ELSE UNCHANGED <<proc, obs>>
    /\ pc' = "settled"
    /\ UNCHANGED <<now, env, desktop, chromeProcess, isLoggedIn, probe, attempts,
                   idx, page, err, completion, wfc, wfd, dir, downloads>>

\* line 427: the promise of crawlMeetingUrls resolved (nothing rejects it, and
\* .catch(console.error) would swallow a rejection); nothing sets an exit code
ExitCode == 0

Exit ==
    /\ pc = "settled"
    /\ pc' = "exit"
    /\ Obs("exitCode", ExitCode)
    /\ UNCHANGED <<now, env, desktop, chromeProcess, proc, isLoggedIn, probe, attempts,
                   idx, page, err, completion, wfc, wfd, dir, downloads>>

\* ---- the browser's downloads (environment) --------------------------------

\* lines 342: the format clicked decides the extension of the exported file
ExportExt == IF downloadType = "PDF" THEN ".pdf" ELSE ".docx"

\* the forms under which a browser creates the file it downloads to
DownloadForms == {"final", "partial"}

\* the browser creates the file of a triggered export
DownloadCreate ==
    /\ proc = "running"
    /\ \E i \in downloads, form \in DownloadForms :
          LET f == [name |-> [hidden |-> form = "hidden", stem |-> <<"export", i>>,
                              stamp |-> NoStamp, ext |-> ExportExt,
                              partial |-> form = "partial"],
                    mtime |-> Recorded(now), size |-> 0, open |-> TRUE, by |-> i]
          IN  /\ dir' = Append(dir, f)
              /\ downloads' = downloads \ {i}
    /\ UNCHANGED <<pc, now, env, desktop, chromeProcess, proc, isLoggedIn, probe, attempts,
                   idx, page, err, completion, wfc, wfd, obs>>

\* the browser writes to a file it is downloading
DownloadWrite ==
    /\ proc = "running"
    /\ \E k \in 1..Len(dir) :
          /\ dir[k].open
          /\ dir[k].size < MaxSize
          /\ dir' = [dir EXCEPT ![k].size = @ + 1, ![k].mtime = Recorded(now)]
    /\ UNCHANGED <<pc, now, env, desktop, chromeProcess, proc, isLoggedIn, probe, attempts,
                   idx, page, err, completion, wfc, wfd, downloads, obs>>

\* the browser finishes a download: the file gets its final name
DownloadComplete ==
    /\ proc = "running"
    /\ \E k \in 1..Len(dir) :
          /\ dir[k].open
          /\ dir[k].size > 0
          /\ dir' = [dir EXCEPT ![k].open = FALSE,
                                ![k].name = [@ EXCEPT !.hidden = FALSE, !.partial = FALSE]]
    /\ UNCHANGED <<pc, now, env, desktop, chromeProcess, proc, isLoggedIn, probe, attempts,
                   idx, page, err, completion, wfc, wfd, downloads, obs>>

\* ---- the specification ----------------------------------------------------

Next ==
    \/ EnsureDownloadDir \/ ProbePort \/ NoFreePort
    \/ StartChromeMissing \/ StartChromeExec \/ LaunchFails \/ WarmUpDone
    \/ HandshakeAttempt \/ Connect \/ ReadDesktop
    \/ ReadUrlFile \/ NewPage \/ CreateCDPSession \/ SetDownloadBehavior
    \/ SetViewport \/ Goto
    \/ CookiePoll \/ CookieGiveUp \/ GatePassed \/ GateFailed
    \/ ClickMenu \/ HoverDownloadAs \/ ClickFormat \/ FindExport \/ ClickExport \/ AfterExport
    \/ Discover \/ Sample \/ DiscoverExpired \/ SampleExpired
    \/ Rename \/ ItemCatch \/ ItemFinally
    \/ Disconnect \/ Catch \/ Finally \/ Exit
    \/ DownloadCreate \/ DownloadWrite \/ DownloadComplete

Spec == Init /\ [][Next]_vars

\* the steps of the program itself: every call it awaits returns or throws, and
\* every timer it waits on fires
ProgramStep ==
    \/ EnsureDownloadDir \/ ProbePort \/ NoFreePort
    \/ StartChromeMissing \/ StartChromeExec \/ LaunchFails \/ WarmUpDone
    \/ HandshakeAttempt \/ Connect \/ ReadDesktop
    \/ ReadUrlFile \/ NewPage \/ CreateCDPSession \/ SetDownloadBehavior
    \/ SetViewport \/ Goto
    \/ CookiePoll \/ CookieGiveUp \/ GatePassed \/ GateFailed
    \/ ClickMenu \/ HoverDownloadAs \/ ClickFormat \/ FindExport \/ ClickExport \/ AfterExport
    \/ Discover \/ Sample \/ DiscoverExpired \/ SampleExpired
    \/ Rename \/ ItemCatch \/ ItemFinally
    \/ Disconnect \/ Catch \/ Finally \/ Exit

\* the runs in which the program is never stopped for ever while it has a step to
\* take; nothing is assumed of the browser's downloads
LiveSpec == Init /\ [][Next]_vars /\ WF_vars(ProgramStep)

\* ---- waitForCookies on its own -------------------------------------------

\* the state in which line 289 calls waitForCookies for the first item, for each
\* configured waitTime
InitCookies ==
    /\ pc = "wfc"
    /\ now = 0
    /\ env = [chromeExists |-> TRUE, portsInUse |-> 0, denied |-> {}, bound |-> {},
              peer |-> NoPeer]
    /\ desktop = << [name |-> <<".url">>, url |-> Http] >>
    /\ chromeProcess = "handle"
    /\ proc = "running"
    /\ isLoggedIn = FALSE
    /\ probe = [i |-> 0, port |-> 0]
    /\ attempts = 0
    /\ idx = 1
    /\ page = "open"
    /\ err = NoErr
    /\ completion = "next"
    /\ \E w \in LoginWaitTimes :
          wfc = [NoWfc EXCEPT !.waitTime = w, !.result = "running"]
    /\ wfd = NoWfd
    /\ dir = InitDir
    /\ downloads = {}
    /\ obs = [kills |-> 0, spawned |-> 1, handshake |-> "ok",
              response |-> [received |-> TRUE, ok |-> TRUE, json |-> TRUE], itemsRead |-> 1,
              anyPage |-> TRUE, gateCalls |-> 1, gateFailed |-> 0, fatal |-> FALSE, clean |-> TRUE,
              exitCode |-> 0 - 1, item |-> [NoItem EXCEPT !.nav = 1]]

NextCookies == CookiePoll \/ CookieGiveUp

SpecCookies == InitCookies /\ [][NextCookies]_vars

\* ---- findFreePort and startChrome with another run on the machine ----------

\* lines 55-63, in the other run
PeerProbe ==
    /\ env.peer.pc = "findFreePort"
    /\ env.peer.i < PortMaxAttempts
    /\ IF checkPort(PortStatus(env.peer.port))
       THEN env' = [env EXCEPT !.peer.pc = "startChrome"]
       ELSE env' = [env EXCEPT !.peer.i = @ + 1, !.peer.port = @ + 1]
    /\ UNCHANGED <<pc, now, desktop, chromeProcess, proc, isLoggedIn, probe, attempts,
                   idx, page, err, completion, wfc, wfd, dir, downloads, obs>>

\* line 64, in the other run
PeerNoFreePort ==
    /\ env.peer.pc = "findFreePort"
    /\ env.peer.i >= PortMaxAttempts
    /\ env' = [env EXCEPT !.peer.pc = "failed"]
    /\ UNCHANGED <<pc, now, desktop, chromeProcess, proc, isLoggedIn, probe, attempts,
                   idx, page, err, completion, wfc, wfd, dir, downloads, obs>>

\* lines 203-213, in the other run: exec with --remote-debugging-port=<its port>
PeerLaunch ==
    /\ env.peer.pc = "startChrome"
    /\ env' = [env EXCEPT !.peer.pc = "launched"]
    /\ UNCHANGED <<pc, now, desktop, chromeProcess, proc, isLoggedIn, probe, attempts,
                   idx, page, err, completion, wfc, wfd, dir, downloads, obs>>

\* lines 194-195: the other run's browser starts to listen on its port, if it can
PeerListens ==
    /\ env.peer.pc = "launched"
    /\ PortStatus(env.peer.port) = "free"
    /\ env' = [env EXCEPT !.bound = @ \cup {env.peer.port}]
    /\ UNCHANGED <<pc, now, desktop, chromeProcess, proc, isLoggedIn, probe, attempts,
                   idx, page, err, completion, wfc, wfd, dir, downloads, obs>>

\* lines 194-195: this run's browser starts to listen on its port, if it can
BrowserListens ==
    /\ proc = "running"
    /\ PortStatus(probe.port) = "free"
    /\ env' = [env EXCEPT !.bound = @ \cup {probe.port}]
    /\ UNCHANGED <<pc, now, desktop, chromeProcess, proc, isLoggedIn, probe, attempts,
                   idx, page, err, completion, wfc, wfd, dir, downloads, obs>>

\* the state in which line 227 calls findFreePort, for each state of the first
\* ports, with and without another run that starts at the same base port
InitPorts ==
    /\ pc = "findFreePort"
    /\ now = 0
    /\ env \in [chromeExists : {TRUE}, portsInUse : (0..MaxBusy) \cup {PortMaxAttempts},
                denied : SUBSET (0..MaxBusy), bound : {{}},
                peer : {NoPeer, [NoPeer EXCEPT !.pc = "findFreePort"]}]
    /\ desktop = <<>>
    /\ chromeProcess = "undefined"
    /\ proc = "none"
    /\ isLoggedIn = FALSE
    /\ probe = [i |-> 0, port |-> 0]
    /\ attempts = 0
    /\ idx = 0
    /\ page = "none"
    /\ err = NoErr
    /\ completion = "next"
    /\ wfc = NoWfc
    /\ wfd = NoWfd
    /\ dir = InitDir
    /\ downloads = {}
    /\ obs = [kills |-> 0, spawned |-> 0, handshake |-> "none", response |-> NoResponse,
              itemsRead |-> 0,
              anyPage |-> FALSE, gateCalls |-> 0, gateFailed |-> 0, fatal |-> FALSE, clean |-> TRUE,
              exitCode |-> 0 - 1, item |-> NoItem]

NextPorts ==
    \/ ProbePort \/ NoFreePort \/ StartChromeExec \/ BrowserListens
    \/ PeerProbe \/ PeerNoFreePort \/ PeerLaunch \/ PeerListens

SpecPorts == InitPorts /\ [][NextPorts]_vars

\* ---- the renaming of line 386 on its own -----------------------------------

\* the file the first item's export was downloaded to, complete
FirstDownload ==
    [name |-> [hidden |-> FALSE, stem |-> <<"export", 1>>, stamp |-> NoStamp,
               ext |-> ExportExt, partial |-> FALSE],
     mtime |-> 0, size |-> 1, open |-> FALSE, by |-> 1]

\* the state in which line 386 is reached for the first item, for each name the
\* filter of line 259 accepts
InitNames ==
    /\ pc = "rename"
    /\ now = maxStableCount * checkInterval + SettleWait
    /\ env = [chromeExists |-> TRUE, portsInUse |-> 0, denied |-> {}, bound |-> {},
              peer |-> NoPeer]
    /\ \E name \in SeqsUpTo(Segments, MaxNameLen) :
          /\ IsUrlFile([name |-> name])
          /\ desktop = << [name |-> name, url |-> Http] >>
    /\ chromeProcess = "handle"
    /\ proc = "running"
    /\ isLoggedIn = TRUE
    /\ probe = [i |-> 0, port |-> 0]
    /\ attempts = 0
    /\ idx = 1
    /\ page = "open"
    /\ err = NoErr
    /\ completion = "next"
    /\ wfc = NoWfc
    /\ wfd = [NoWfd EXCEPT !.endTime = downloadTimeout,
                           !.downloadedFile = <<FirstDownload.name>>,
                           !.previousSize = 1, !.stableCount = maxStableCount,
                           !.run = maxStableCount + 1, !.lastSample = 1,
                           !.listedAt = 0, !.sampledAt = maxStableCount * checkInterval,
                           !.complete = TRUE,
                           !.result = "returned"]
    /\ dir = Append(InitDir, FirstDownload)
    /\ downloads = {}
    /\ obs = [kills |-> 0, spawned |-> 1, handshake |-> "ok",
              response |-> [received |-> TRUE, ok |-> TRUE, json |-> TRUE], itemsRead |-> 1,
              anyPage |-> TRUE, gateCalls |-> 1, gateFailed |-> 0, fatal |-> FALSE, clean |-> TRUE,
              exitCode |-> 0 - 1, item |-> [NoItem EXCEPT !.nav = 1, !.exported = 1]]

NextNames == Rename

SpecNames == InitNames /\ [][NextNames]_vars

\* ---- readUrlFile and the opening of the page on their own ------------------

\* the state in which the loop of line 267 starts, for each listing of shortcut
\* files with the URL fields of UrlForms
InitUrls ==
    /\ pc = "item"
    /\ now = 0
    /\ env = [chromeExists |-> TRUE, portsInUse |-> 0, denied |-> {}, bound |-> {},
              peer |-> NoPeer]
    /\ desktop \in SeqsUpTo({ [name |-> <<".url">>, url |-> u] : u \in UrlForms }, MaxItems)
    /\ Len(desktop) > 0
    /\ chromeProcess = "handle"
    /\ proc = "running"
    /\ isLoggedIn = FALSE
    /\ probe = [i |-> 0, port |-> 0]
    /\ attempts = 0
    /\ idx = 1
    /\ page = "none"
    /\ err = NoErr
    /\ completion = "next"
    /\ wfc = NoWfc
    /\ wfd = NoWfd
    /\ dir = InitDir
    /\ downloads = {}
    /\ obs = [kills |-> 0, spawned |-> 1, handshake |-> "ok",
              response |-> [received |-> TRUE, ok |-> TRUE, json |-> TRUE], itemsRead |-> 0,
              anyPage |-> FALSE, gateCalls |-> 0, gateFailed |-> 0, fatal |-> FALSE, clean |-> TRUE,
              exitCode |-> 0 - 1, item |-> NoItem]

NextUrls == ReadUrlFile \/ NewPage

SpecUrls == InitUrls /\ [][NextUrls]_vars

\* ---- waitForDownload of src/unnamed/part_000 on its own --------------------

\* part_000 lines 132, 133 (seconds)
part000MaxStableCount == 3
part000CheckInterval == 2

\* part_000 line 115: !file.endsWith('.crdownload')
part000Accepts(f) == ~f.name.partial

\* part_000 line 115: files.find(...) takes the first of these, in listing order
part000Found(listing) == SelectSeq(listing, part000Accepts)

\* part_000 lines 113, 135: the loop condition of both phases
part000BeforeDeadline == now - wfd.startTime < downloadTimeout

\* files that can be in the download directory before the export is triggered:
\* the outputs of earlier items, a hidden file and the rest of an aborted download
part000Before ==
    InitDir \o
    << [name |-> [hidden |-> TRUE, stem |-> <<"DS_Store">>, stamp |-> NoStamp, ext |-> "",
                  partial |-> FALSE],
        mtime |-> Stale, size |-> 1, open |-> FALSE, by |-> 0],
       [name |-> [hidden |-> FALSE, stem |-> <<"aborted">>, stamp |-> NoStamp, ext |-> ExportExt,
                  partial |-> TRUE],
        mtime |-> Stale, size |-> 1, open |-> FALSE, by |-> 0] >>

\* the files of d at the positions in S, in the order of d
RECURSIVE Pick(_, _, _)
Pick(d, S, i) ==
    IF i > Len(d) THEN <<>>
    ELSE IF i \in S THEN <<d[i]>> \o Pick(d, S, i + 1)
    ELSE Pick(d, S, i + 1)

\* part_000 lines 113-120: one pass of the discovery loop
Part000Discover ==
    /\ pc = "wfd_discover"
    /\ part000BeforeDeadline
    /\ \/ /\ \E listing \in Listings(dir) :
             LET found == part000Found(listing)
             IN  IF Len(found) > 0
                 THEN \* break
                      /\ wfd' = [wfd EXCEPT !.downloadedFile = <<found[1].name>>,
                                            !.previousSize = 0 - 1,
                                            !.stableCount = 0,
                                            !.listedAt = now]
                      /\ pc' = "wfd_sample"
                      /\ UNCHANGED now
                 ELSE /\ wfd' = [wfd EXCEPT !.listedAt = now]
                      /\ now' = now + DiscoveryInterval
                      /\ pc' = pc
          /\ UNCHANGED err
       \/ \* readdir throws
          /\ Throw("waitForDownload", "Error", "item_catch")
          /\ wfd' = [NoWfd EXCEPT !.result = "error"]
          /\ UNCHANGED now
    /\ UNCHANGED <<env, desktop, chromeProcess, proc, isLoggedIn, probe, attempts,
                   idx, page, completion, wfc, dir, downloads, obs>>

\* part_000 lines 113, 122-124: the deadline passed with no file found
Part000DiscoverExpired ==
    /\ pc = "wfd_discover"
    /\ ~part000BeforeDeadline
    /\ Throw("waitForDownload", "DownloadTimeout", "item_catch")
    /\ wfd' = [NoWfd EXCEPT !.result = "timeout"]
    /\ obs' = [obs EXCEPT !.item.timedOut = TRUE]
    /\ UNCHANGED <<now, env, desktop, chromeProcess, proc, isLoggedIn, probe, attempts,
                   idx, page, completion, wfc, dir, downloads>>

\* part_000 lines 135-153: one size sample of the stability loop (a size of zero
\* counts as stable too, and the file is returned without a further wait)
Part000Sample ==
    /\ pc = "wfd_sample"
    /\ part000BeforeDeadline
    /\ LET k == Lookup(dir, wfd.downloadedFile[1])
       IN  \/ /\ k > 0
              /\ LET currentSize == dir[k].size
                     count == IF currentSize = wfd.previousSize THEN wfd.stableCount + 1 ELSE 0
                 IN  IF currentSize = wfd.previousSize /\ count >= part000MaxStableCount
                     THEN /\ wfd' = [wfd EXCEPT !.stableCount = count,
                                                !.sampledAt = now,
                                                !.complete = ~dir[k].open,
                                                !.result = "returned"]
                          /\ pc' = "rename"
                          /\ UNCHANGED now
                     ELSE /\ wfd' = [wfd EXCEPT !.stableCount = count,
                                                !.previousSize = currentSize,
                                                !.sampledAt = now]
                          /\ now' = now + part000CheckInterval
                          /\ pc' = pc
              /\ UNCHANGED err
           \/ \* statSync throws
              /\ Throw("waitForDownload", "Error", "item_catch")
              /\ wfd' = [NoWfd EXCEPT !.result = "error"]
              /\ UNCHANGED now
    /\ UNCHANGED <<env, desktop, chromeProcess, proc, isLoggedIn, probe, attempts,
                   idx, page, completion, wfc, dir, downloads, obs>>

\* part_000 lines 135, 155: the deadline passed before the size was stable
Part000SampleExpired ==
    /\ pc = "wfd_sample"
    /\ ~part000BeforeDeadline
    /\ Throw("waitForDownload", "DownloadTimeout", "item_catch")
    /\ wfd' = [NoWfd EXCEPT !.result = "timeout"]
    /\ obs' = [obs EXCEPT !.item.timedOut = TRUE]
    /\ UNCHANGED <<now, env, desktop, chromeProcess, proc, isLoggedIn, probe, attempts,
                   idx, page, completion, wfc, dir, downloads>>

\* the state in which part_000 line 382 calls waitForDownload for the first item,
\* right after the click on the export button, for each content of the directory
InitPart000 ==
    /\ pc = "wfd_discover"
    /\ now = 0
    /\ env = [chromeExists |-> TRUE, portsInUse |-> 0, denied |-> {}, bound |-> {},
              peer |-> NoPeer]
    /\ desktop = << [name |-> <<".url">>, url |-> Http] >>
    /\ chromeProcess = "handle"
    /\ proc = "running"
    /\ isLoggedIn = TRUE
    /\ probe = [i |-> 0, port |-> 0]
    /\ attempts = 0
    /\ idx = 1
    /\ page = "open"
    /\ err = NoErr
    /\ completion = "next"
    /\ wfc = NoWfc
    /\ wfd = [NoWfd EXCEPT !.startTime = 0, !.endTime = downloadTimeout, !.result = "running"]
    /\ \E S \in SUBSET (1..Len(part000Before)) : dir = Pick(part000Before, S, 1)
    /\ downloads = {1}
    /\ obs = [kills |-> 0, spawned |-> 1, handshake |-> "ok",
              response |-> [received |-> TRUE, ok |-> TRUE, json |-> TRUE], itemsRead |-> 1,
              anyPage |-> TRUE, gateCalls |-> 1, gateFailed |-> 0, fatal |-> FALSE, clean |-> TRUE,
              exitCode |-> 0 - 1, item |-> [NoItem EXCEPT !.nav = 1, !.exported = 1]]

NextPart000 ==
    \/ Part000Discover \/ Part000DiscoverExpired \/ Part000Sample \/ Part000SampleExpired
    \/ DownloadCreate \/ DownloadWrite \/ DownloadComplete

SpecPart000 == InitPart000 /\ [][NextPart000]_vars

\* ---- properties -----------------------------------------------------------

\* the run is over: the outer finally has run
Ended == pc \in {"settled", "exit"}

\* C1: whenever startChrome resolved with a process handle, the run ends, on every
\* exit path, with kill() invoked on that handle and the browser not left running
C1_KillOnEveryExit ==
    (Ended /\ chromeProcess = "handle") => (obs.kills >= 1 /\ proc # "running")

\* a run that failed at the handshake, after the launch, and killed the browser
C1_Witness ==
    /\ pc = "exit"
    /\ chromeProcess = "handle"
    /\ obs.handshake = "failed"
    /\ obs.fatal
    /\ obs.kills >= 1

\* C2: the file waitForDownload returns was modified at or after startTime
C2_ReturnedFileIsNew ==
    pc = "rename" =>
        LET k == Lookup(dir, wfd.downloadedFile[1])
        IN  k > 0 /\ dir[k].mtime >= wfd.startTime

\* a file was returned while an older file of the expected extension is in the directory
C2_Witness ==
    /\ pc = "rename"
    /\ wfd.result = "returned"
    /\ \E k \in 1..Len(dir) : Qualifies(dir[k]) /\ dir[k].mtime < wfd.startTime

\* C3 as amended: the counter is the number of latest samples that equal their
\* predecessor and are nonzero, it restarts at 0 on a changed or zero sample, and
\* the file is returned when it reaches maxStableCount, which takes
\* maxStableCount + 1 consecutive equal nonzero samples
C3_StabilityCounter ==
    /\ pc = "wfd_sample" =>
          /\ wfd.stableCount = (IF wfd.run > 0 THEN wfd.run - 1 ELSE 0)
          /\ wfd.stableCount < maxStableCount
    /\ wfd.result = "returned" =>
          /\ wfd.stableCount = maxStableCount
          /\ wfd.run = maxStableCount + 1

\* a file that grew while it was sampled, the counter restarted, and was returned
C3_Witness ==
    /\ wfd.result = "returned"
    /\ wfd.wasReset

\* C3 as stated: the file is returned after exactly maxStableCount consecutive
\* equal nonzero samples
C3_ExactlyThreshold ==
    wfd.result = "returned" => wfd.run = maxStableCount

\* C4: waitForCookies returns true exactly when a poll made within its bounds saw
\* every required cookie in the cookies read by that poll, false otherwise; no poll
\* is made after maxAttempts failed polls or once timeout has elapsed
C4_CookieGate ==
    /\ wfc.polls <= CookieMaxAttempts
    /\ wfc.polls > 0 => wfc.lastPollAt - wfc.startTime < CookieTimeout
    /\ pc = "wfc" => (~wfc.sawAll /\ wfc.result = "running")
    /\ pc = "gate" =>
          /\ wfc.result \in {"true", "false"}
          /\ (wfc.result = "true") <=> wfc.sawAll
          /\ wfc.result = "true" => requiredCookies \subseteq wfc.last

\* the cookies appeared on the last poll the attempt bound allows
C4_Witness ==
    /\ pc = "gate"
    /\ wfc.result = "true"
    /\ wfc.polls = CookieMaxAttempts

\* C5 as stated: after the session gate returned false no further item is read,
\* the gate is not entered again, and the run ends with the browser killed
C5_GateFailureAborts ==
    obs.gateFailed > 0 =>
        /\ obs.itemsRead = obs.gateFailed
        /\ obs.gateCalls = 1
        /\ pc = "exit" => obs.kills = 1

\* the steps of the loop body, lines 268-410
ItemSteps ==
    {"readUrlFile", "newPage", "createCDPSession", "setDownloadBehavior", "setViewport",
     "goto", "gateClose", "waitForSelector", "menuClick", "downloadAs", "format",
     "findExport", "exportClick", "afterExport", "waitForDownload", "rename"}

\* C6 as stated: no failure of a step of the loop body reaches the outer catch
C6_ItemFailuresContained ==
    pc = "catch" => err.at \notin ItemSteps

\* C7, the state part: one deadline, startTime + timeout, for both phases; no
\* listing and no size sample is taken at or after it; a timed-out item is not renamed
C7_Window ==
    /\ wfd.result \in {"running", "returned"} =>
          /\ wfd.endTime = wfd.startTime + downloadTimeout
          /\ wfd.listedAt < wfd.endTime
          /\ wfd.sampledAt < wfd.endTime
    /\ obs.item.timedOut => obs.item.renamed = 0

\* C7, the step part: at or after the deadline the watcher only fails with the
\* timeout error; the orchestrator catches it and goes on with the next item
C7_Step ==
    /\ (pc \in {"wfd_discover", "wfd_sample"} /\ now >= wfd.endTime) =>
          \/ pc' = pc /\ wfd' = wfd
          \/ pc' = "item_catch" /\ err'.kind = "DownloadTimeout" /\ obs'.item.timedOut
    /\ (pc = "item_catch" /\ err.kind = "DownloadTimeout") =>
          \/ pc' = pc
          \/ pc' = "item_finally" /\ completion' = "next"
    /\ (pc = "item_finally" /\ obs.item.timedOut) =>
          \/ pc' = pc
          \/ pc' = "item" /\ idx' = idx + 1

\* C7: both phases of waitForDownload share the deadline startTime + timeout; when
\* it passes the watcher fails with a timeout error without a further listing or
\* sample, and the orchestrator skips only the current item
C7_SharedDeadline == [](C7_Window) /\ [][C7_Step]_vars

\* an item timed out with another item still to process
C7_Witness ==
    /\ pc = "item_finally"
    /\ obs.item.timedOut
    /\ completion = "next"
    /\ idx < Len(urlFiles)

\* C8 as amended: kill() is invoked at most once per run; exactly once when
\* startChrome resolved with a process handle, not at all when the run aborted
\* before that, and no browser is left running either way
C8_KillAtMostOnce ==
    /\ obs.kills <= 1
    /\ Ended =>
          /\ (obs.kills = 1) <=> (chromeProcess = "handle")
          /\ proc # "running"

\* a run that aborted before startChrome resolved: nothing to kill
C8_Witness ==
    /\ pc = "exit"
    /\ obs.fatal
    /\ chromeProcess = "undefined"
    /\ obs.kills = 0

\* C8 as stated: kill() is invoked exactly once in every terminal state
C8_KillExactlyOnce ==
    pc = "exit" => obs.kills = 1

\* C9 as stated: a run that ended on a fatal error or a failed session gate ends
\* with a non-zero outcome
C9_FatalNonZero ==
    (pc = "exit" /\ (obs.fatal \/ obs.gateFailed > 0)) => obs.exitCode # 0

\* C10: when the executable is missing the run aborts at startChrome: no process is
\* spawned, no item read, no page opened, no handshake request made, no process left
C10_MissingExecutable ==
    ~env.chromeExists =>
        /\ obs.spawned = 0
        /\ proc = "none"
        /\ chromeProcess = "undefined"
        /\ obs.itemsRead = 0
        /\ ~obs.anyPage
        /\ obs.handshake = "none"
        /\ pc \in {"mkdir", "findFreePort", "startChrome", "catch", "finally",
                   "settled", "exit"}

\* the run ended on the rejection of startChrome for the missing executable
C10_Witness ==
    /\ ~env.chromeExists
    /\ pc = "exit"
    /\ obs.fatal
    /\ err.at = "startChrome"

\* the port basePort + off can be bound and none before it can
SmallestBindable(off) ==
    /\ PortStatus(off) = "free"
    /\ \A q \in 0..(off - 1) : PortStatus(q) # "free"

\* C11 as stated: the port findFreePort returns is the smallest probed port that a
\* socket can actually be bound to (no other run interfering)
C11_SmallestBindable ==
    (pc = "startChrome" /\ env.peer.pc = "none") => SmallestBindable(probe.port)

\* C19 as stated: two runs started with the same base port never both take the
\* same remote-debugging port (hence the same profile directory)
C19_NoSharedPort ==
    ~ /\ pc \in {"startChrome", "warmup"}
      /\ env.peer.pc \in {"startChrome", "launched"}
      /\ env.peer.port = probe.port

\* C12, the state part: a request is only made while fewer than 10 have failed;
\* the loop is left for connect only on an ok response with a parsable body and
\* for the outer catch only on a failed request; after a handshake failure no page
\* is opened and no item read
C12_State ==
    /\ pc = "handshake" => attempts < HandshakeMaxAttempts
    /\ obs.handshake = "ok" =>
          (obs.response.received /\ obs.response.ok /\ obs.response.json)
    /\ obs.handshake \in {"trying", "failed"} =>
          ~(obs.response.received /\ obs.response.ok /\ obs.response.json)
    /\ obs.handshake = "failed" =>
          /\ pc \in {"catch", "finally", "settled", "exit"}
          /\ ~obs.anyPage
          /\ obs.itemsRead = 0

\* C12, the step part: a failed request is followed by the next one 3 s later,
\* unless it was the 10th, which fails the run; the first successful one ends the loop
C12_Step ==
    pc = "handshake" =>
        \/ UNCHANGED <<pc, attempts, now>>
        \/ /\ obs'.handshake = "ok"
           /\ pc' = "connect"
           /\ now' = now
        \/ /\ obs'.handshake = "trying"
           /\ pc' = "handshake"
           /\ attempts + 1 < HandshakeMaxAttempts
           /\ attempts' = attempts + 1
           /\ now' = now + HandshakeInterval
        \/ /\ obs'.handshake = "failed"
           /\ pc' = "catch"
           /\ attempts + 1 = HandshakeMaxAttempts

\* C12: the handshake makes at most 10 requests, 3 s apart, stops at the first ok
\* response with a parsable body, fails the run exactly when the 10th request
\* failed too, and then no page is opened and no item processed
C12_Handshake == [](C12_State) /\ [][C12_Step]_vars

\* the descriptor came with the 10th request
C12_Witness ==
    /\ pc = "connect"
    /\ obs.handshake = "ok"
    /\ now = WarmUp + (HandshakeMaxAttempts - 1) * HandshakeInterval

\* C13 as stated: the session gate is called once in a run, after the first
\* successful navigation, and never again, whether it returned true or not
C13_GateOnce ==
    /\ obs.gateCalls <= 1
    /\ isLoggedIn => obs.gateCalls = 1
    /\ pc \in {"wfc", "gate"} => obs.item.nav = 1

\* the items whose export was triggered and whose download is not finished
InFlight == downloads \cup { dir[k].by : k \in { j \in 1..Len(dir) : dir[j].open } }

\* C14 as stated: at most one export is in flight at any moment
C14_OneExportInFlight == Cardinality(InFlight) <= 1

\* a name without its last dot-segment
WithoutExtension(name) == SubSeq(name, 1, Len(name) - 1)

\* C15 as stated: the downloaded file is renamed to the shortcut file's name
\* without its extension, the time of the rename, and the downloaded file's extension
C15_OutputName ==
    (pc = "item_finally" /\ obs.item.renamed = 1) =>
        \E k \in 1..Len(dir) :
            /\ dir[k].by = idx
            /\ dir[k].name.stem = <<urlFiles[idx]>> \o WithoutExtension(CurFile.name)
            /\ dir[k].name.stamp = Recorded(now)
            /\ dir[k].name.ext = ExportExt

\* the URL fields that are HTTP(S) URLs
HttpUrls == {Http, Https}

\* C16 as stated: a page is opened only for a shortcut file whose URL field is an
\* HTTP(S) URL
C16_InvalidSkipped ==
    pc \in {"newPage", "cdp"} => CurFile.url \in HttpUrls

\* a UI lookup of the current item failed with an error: the more-options control
\* did not become visible, or the download-as or the format element is missing
LookupThrew ==
    \/ err.at = "waitForSelector" /\ err.kind = "TimeoutError"
    \/ err.at \in {"downloadAs", "format"} /\ err.kind = "TypeError"

\* C18 as stated: when a UI lookup failed for an item, a diagnostic screenshot was
\* taken before the item is left
C18_LookupScreenshot ==
    (pc = "item_finally" /\ LookupThrew) => obs.item.shot # "none"

\* the positions of crawlMeetingUrls inside the body of the loop, after readUrlFile
InLoopBody ==
    pc \in {"newPage", "cdp", "setDownloadBehavior", "setViewport", "goto", "wfc", "gate",
            "menu", "downloadAs", "format", "findExport", "export", "afterExport",
            "wfd_discover", "wfd_sample", "rename", "item_catch", "item_finally"}

\* C20, the state part: the iterations so far read the first shortcut files of the
\* listing, one each; the current one navigated, triggered an export and renamed a
\* file at most once, in that order
C20_State ==
    /\ obs.itemsRead <= Len(urlFiles)
    /\ pc = "item" => obs.itemsRead = idx - 1
    /\ InLoopBody => obs.itemsRead = idx
    /\ obs.item.nav <= 1
    /\ obs.item.exported <= obs.item.nav
    /\ obs.item.renamed <= obs.item.exported

\* C20, the step part: the loop only moves forward, by one file, and an iteration
\* reads the file at its own position
C20_Step ==
    /\ idx' \in {idx, idx + 1}
    /\ obs'.itemsRead # obs.itemsRead =>
          /\ pc = "item"
          /\ obs'.itemsRead = idx
          /\ idx' = idx \/ pc' = "item"

OutputsOf(i) ==
    { k \in 1..Len(dir) : /\ dir[k].name.stamp # NoStamp
                          /\ Len(dir[k].name.stem) > 0
                          /\ dir[k].name.stem[1] = i }

\* the run of the scenario: every shortcut file has a valid URL, no step failed,
\* the gate passed, every download was complete and stable before its timeout
HappyRun ==
    /\ pc = "exit"
    /\ \A j \in 1..Len(urlFiles) : ValidUrl(desktop[urlFiles[j]].url)
    /\ ~obs.fatal
    /\ obs.clean

\* C17: the run of the scenario ends with one renamed output file per shortcut
\* file, the download of that item under that item's name, with no abort and with
\* the browser killed
C17_OneOutputEach ==
    HappyRun =>
        /\ obs.itemsRead = Len(urlFiles)
        /\ \A j \in 1..Len(urlFiles) :
              /\ Cardinality(OutputsOf(urlFiles[j])) = 1
              /\ \A k \in OutputsOf(urlFiles[j]) :
                    /\ dir[k].by = j
                    /\ dir[k].name.ext = ExportExt
                    /\ ~dir[k].open
        /\ Cardinality({ k \in 1..Len(dir) : dir[k].name.stamp # NoStamp }) = Len(urlFiles)
        /\ obs.gateFailed = 0
        /\ isLoggedIn = (Len(urlFiles) > 0)
        /\ obs.kills = 1
        /\ proc = "killed"

\* a run of the scenario with MaxItems shortcut files
C17_Witness ==
    /\ HappyRun
    /\ Len(urlFiles) = MaxItems
    /\ \A j \in 1..MaxItems : Cardinality(OutputsOf(urlFiles[j])) = 1

\* C21 as stated: the page opened for an item is closed before the page of the
\* next item is opened, so that at most one page of the run is open at any moment
C21_OnePageOpen ==
    pc = "newPage" => page # "open"

\* C22 as stated: the file the discovery of part_000's waitForDownload settles on
\* is not a partial and not a hidden file, has the extension of the export type,
\* was modified at or after the task start, and is the file of the export that
\* was just triggered, not one that was in the directory before
C22_Part000Discovery ==
    (pc \in {"wfd_sample", "rename"} /\ wfd.downloadedFile # <<>>) =>
        LET k == Lookup(dir, wfd.downloadedFile[1])
        IN  /\ k > 0
            /\ Qualifies(dir[k])
            /\ dir[k].mtime >= wfd.startTime
            /\ dir[k].by = idx

\* C23, the state part: while waitForDownload runs or has ended for the current
\* item, the item's export button was clicked, the start time is the one taken
\* before the click, and every file the item's export wrote is at least that new;
\* an item whose export button was not clicked has no watcher and no rename
C23_State ==
    /\ wfd.result # "none" => obs.item.exported = 1
    /\ wfd.result \in {"running", "returned"} =>
          /\ wfd.startTime = downloadStartTime
          /\ \A k \in 1..Len(dir) : dir[k].by = idx => dir[k].mtime >= wfd.startTime
    /\ obs.item.exported = 0 => (wfd = NoWfd /\ obs.item.renamed = 0)
    /\ obs.item.shot # "none" => (wfd = NoWfd /\ obs.item.exported = 0)
    /\ (InLoopBody /\ obs.item.renamed > 0) => wfd.result = "returned"

\* C23, the step part: the click comes after the start time was taken, the
\* watcher is called after the click, and the rename after the watcher returned
C23_Step ==
    /\ obs'.item.exported > obs.item.exported =>
          (pc = "export" /\ now >= downloadStartTime /\ wfd = NoWfd)
    /\ (wfd.result = "none" /\ wfd'.result = "running") =>
          (pc = "afterExport" /\ obs.item.exported = 1 /\ wfd'.startTime <= now)
    /\ obs'.item.renamed > obs.item.renamed =>
          (pc = "rename" /\ wfd.result = "returned" /\ obs.item.exported = 1)

\* C23: waitForDownload is called for an item only after its export button was
\* found and clicked, with a start time taken before the click, so the files the
\* click produced are not older than it; otherwise neither the watcher nor the
\* rename is invoked for the item
C23_ExportThenWatch == [](C23_State) /\ [][C23_Step]_vars

\* the watcher returned the file the current item's export wrote after the click
C23_Witness ==
    /\ pc = "rename"
    /\ obs.item.exported = 1
    /\ LET k == Lookup(dir, wfd.downloadedFile[1])
       IN  k > 0 /\ dir[k].by = idx /\ dir[k].mtime >= downloadStartTime

\* the number of moments startTime + k * waitTime that lie before the timeout
IntervalStarts(waitTime) ==
    Cardinality({ k \in 0..CookieTimeout : k * waitTime < CookieTimeout })

\* the number of polls a call that never sees the cookies makes
MaxPolls(waitTime) ==
    IF CookieMaxAttempts < IntervalStarts(waitTime) THEN CookieMaxAttempts
    ELSE IntervalStarts(waitTime)

\* C24: waitForCookies makes at most maxAttempts polls, one per waitTime, and none
\* once the timeout has elapsed; every poll that did not see the cookies, a
\* throwing one included, counts as one attempt; it returns false exactly when one
\* of the two bounds is reached, after min(5, interval starts before 120 s) polls,
\* and it never throws
C24_CookieBounds ==
    wfc.result # "none" =>
        /\ wfc.polls <= MaxPolls(wfc.waitTime)
        /\ err = NoErr
        /\ pc \in {"wfc", "gate"}
        /\ wfc.result = "running" =>
              /\ wfc.attempts = wfc.polls
              /\ now = wfc.startTime + wfc.polls * wfc.waitTime
        /\ wfc.result = "true" => wfc.attempts = wfc.polls - 1
        /\ wfc.result = "false" =>
              /\ wfc.attempts = wfc.polls
              /\ wfc.polls = MaxPolls(wfc.waitTime)
              /\ \/ wfc.attempts = CookieMaxAttempts
                 \/ now - wfc.startTime >= CookieTimeout

\* the timeout ended the call before the attempts were used up
C24_Witness ==
    /\ pc = "gate"
    /\ wfc.result = "false"
    /\ wfc.polls < CookieMaxAttempts
    /\ now - wfc.startTime >= CookieTimeout

\* C25, the state part: the i-th probe is of the port startPort + i, at most 100
\* probes are made, every port before the current one was reported in use, and
\* after the no-free-port error no browser is launched and no item processed
C25_State ==
    /\ probe.port = probe.i
    /\ probe.i <= PortMaxAttempts
    /\ \A q \in 0..(probe.i - 1) : ~checkPort(PortStatus(q))
    /\ probe.i = PortMaxAttempts => (pc = "findFreePort" \/ err.at = "findFreePort")
    /\ err.at = "findFreePort" =>
          /\ probe.i = PortMaxAttempts
          /\ pc \in {"catch", "finally", "settled", "exit"}
          /\ proc = "none"
          /\ chromeProcess = "undefined"
          /\ obs.spawned = 0
          /\ obs.itemsRead = 0
          /\ ~obs.anyPage

\* C25, the step part: findFreePort returns the port it is at when that port is
\* reported available, goes on to the next port when it is not, and fails only
\* after the 100th probe
C25_Step ==
    /\ pc = "findFreePort" =>
          \/ UNCHANGED <<pc, probe>>
          \/ /\ pc' = "startChrome"
             /\ probe' = probe
             /\ probe.i < PortMaxAttempts
             /\ checkPort(PortStatus(probe.port))
          \/ /\ pc' = "findFreePort"
             /\ probe.i < PortMaxAttempts
             /\ ~checkPort(PortStatus(probe.port))
             /\ probe' = [i |-> probe.i + 1, port |-> probe.port + 1]
          \/ /\ pc' = "catch"
             /\ err'.at = "findFreePort"
             /\ probe.i = PortMaxAttempts
             /\ probe' = probe
    /\ pc # "findFreePort" => probe' = probe

\* C25: findFreePort probes startPort, startPort + 1, ... in this order, stops at
\* the first port reported available, makes at most 100 probes and fails exactly
\* when all 100 were reported in use; then no browser is launched and no item read
C25_FindFreePort == [](C25_State) /\ [][C25_Step]_vars

\* the run ended on the no-free-port error, after 100 probes
C25_Witness ==
    /\ pc = "exit"
    /\ err.at = "findFreePort"
    /\ probe.i = PortMaxAttempts
    /\ obs.fatal

\* C26: every run of crawlMeetingUrls in which each awaited call returns or throws
\* and each timer fires reaches its end, with the cleanup block executed, whatever
\* the shortcut files, the cookies and the sizes of the downloaded files do
C26_Terminates == <>(pc = "exit")

\* a run that reached its end after the last item's download had timed out
C26_Witness ==
    /\ pc = "exit"
    /\ obs.item.timedOut
    /\ obs.itemsRead = MaxItems
    /\ obs.kills = 1

\* the files of the directory that qualify and are new for the running watcher
Candidates ==
    { k \in 1..Len(dir) : Qualifies(dir[k]) /\ IsNew(dir[k], wfd.startTime) }

\* C27, the state part: the stability phase has one candidate, and no candidate
\* is held in the discovery phase
C27_State ==
    /\ pc \in {"wfd_sample", "rename"} => Len(wfd.downloadedFile) = 1
    /\ pc = "wfd_discover" => wfd.downloadedFile = <<>>

\* C27, the step part: discovery goes on while no file qualifies and selects a
\* qualifying file from the first listing that has one; from then on every
\* sample is of the selected file, the watcher never lists again, and it ends by
\* returning that file or with an error, the timeout error only at the deadline
C27_Step ==
    /\ (pc = "wfd_discover" /\ pc' = "wfd_sample") =>
          \E k \in Candidates : wfd'.downloadedFile = <<dir[k].name>>
    /\ (pc = "wfd_discover" /\ pc' = "wfd_discover" /\ wfd' # wfd) => Candidates = {}
    /\ pc = "wfd_sample" =>
          \/ wfd' = wfd /\ pc' = pc
          \/ /\ pc' = "wfd_sample"
             /\ wfd'.downloadedFile = wfd.downloadedFile
             /\ wfd'.lastSample = dir[Lookup(dir, wfd.downloadedFile[1])].size
          \/ /\ pc' = "rename"
             /\ wfd'.result = "returned"
             /\ wfd'.downloadedFile = wfd.downloadedFile
             /\ wfd'.lastSample = dir[Lookup(dir, wfd.downloadedFile[1])].size
          \/ /\ pc' = "item_catch"
             /\ err'.kind = "DownloadTimeout" => now >= wfd.endTime
    /\ pc = "rename" => (wfd'.downloadedFile = wfd.downloadedFile \/ pc' = "item_finally")

\* C27: waitForDownload selects the first qualifying file of the first listing
\* that has one and never switches: every later sample is of that file and the
\* path returned is that file's, also when another qualifying file appears or
\* the candidate stays empty or keeps changing until the deadline
C27_NeverSwitches == [](C27_State) /\ [][C27_Step]_vars

\* the selected candidate is still empty, was sampled, and another qualifying
\* file is in the directory
C27_Witness ==
    /\ pc = "wfd_sample"
    /\ wfd.sampledAt >= 0
    /\ wfd.lastSample = 0
    /\ \E k \in Candidates : dir[k].name # wfd.downloadedFile[1]

\* C28 as stated: the file waitForDownload returns for an item, and that is then
\* renamed for it, was written by that item's own export, never by the export of
\* an earlier item and never a file already renamed for an earlier item
C28_OwnExport ==
    /\ pc = "rename" =>
          LET k == Lookup(dir, wfd.downloadedFile[1])
          IN  /\ k > 0
              /\ dir[k].by = idx
              /\ dir[k].name.stamp = NoStamp
    /\ \A k \in 1..Len(dir) :
          (dir[k].name.stamp # NoStamp /\ dir[k].by > 0) =>
              dir[k].name.stem[1] = urlFiles[dir[k].by]

====
